---- MODULE Spec2Model ----
(***************************************************************************)
(* Verification model of the koishi plugin minecraft-search                *)
(* (src/src/index.ts): the status cache and provider queries, the          *)
(* all-servers fan-out, and the power-control channel with its retry loop. *)
(*                                                                         *)
(* Spec       one server through time: mcstatus, mcstatus.api -s, the      *)
(*            cache, the clock and the periodic sweep.                     *)
(* SpecAll    the all-servers report of mcstatus over several servers.     *)
(* SpecConc   two commands in flight together, with the provider switched  *)
(*            by -a and -s and the test of mcstatus.api -t.                *)
(* SpecPower  the power side: the commands "kaifu" (开服) and "chongqi"     *)
(*            (重启) and minekuaiApiRequest.                                *)
(* SpecResolve  mcstatus [server]: how the token is resolved.               *)
(* SpecSweep  one server through time with the clock and the sweep timer   *)
(*            running on (weak fairness).                                  *)
(* SpecText   the formatting strippers on every short MOTD.                *)
(* SpecTemp   two mcstatus commands in flight, with and without -a.        *)
(* SpecSwitch mcstatus -a in flight while mcstatus.api -s switches.        *)
(* SpecInvalid  -a and -s given names that are no provider.                *)
(* SpecZero   a registry with a server of id 0 and the commands by id.     *)
(***************************************************************************)
EXTENDS Integers, Sequences, FiniteSets, TLC

VARIABLES
    \* ---- configuration (config.*) ----
    servers,        \* config.servers: sequence of ServerConfig records
    cacheTime,      \* config.querySettings.cacheTime (seconds)
    enableQuery,    \* config.querySettings.enableQuery
    apiProvider,    \* config.apiSettings.apiProvider
    apiKey,         \* config.minekuaiSettings.apiKey
    apiUrl,         \* config.minekuaiSettings.apiUrl
    \* ---- status side ----
    now,            \* Date.now() in milliseconds
    cache,          \* the Map cache: key -> NoEntry or [data, timestamp]
    req,            \* the command invocations in flight or finished
    lastSweep,      \* time the sweep timer last fired (or was created)
    \* ---- power side ----
    pw,             \* the running 开服 / 重启 command and its minekuaiApiRequest
    trace,          \* what that command did: posts, outcomes, timers
    firstFailure,   \* the first failure message a caller received, with its step
    \* ---- text shown ----
    motd,           \* a MOTD as the provider sends it: a sequence of characters
    out             \* what a formatting stripper made of it

cfgVars == <<servers, cacheTime, enableQuery, apiProvider, apiKey, apiUrl>>
statusVars == <<now, cache, req, lastSweep>>
powerVars == <<pw, trace, firstFailure>>
textVars == <<motd, out>>
vars == <<cfgVars, statusVars, powerVars, textVars>>

(***************************************************************************)
(* Configuration                                                           *)
(***************************************************************************)

\* ServerConfig (index.ts 6-11); an unset minekuaiInstanceId is "".
Server(i, n, h, m) == [id |-> i, name |-> n, host |-> h, minekuaiInstanceId |-> m]

\* Server lists the plugin is configured with: the two default servers
\* (index.ts 70-73), with and without an instance id, in both orders.
ServerConfigs ==
    { << Server(1, "Hypixel", "mc.hypixel.net", "inst1"),
         Server(2, "Demo", "demo.mcstatus.io", "") >>,
      << Server(2, "Demo", "demo.mcstatus.io", ""),
         Server(1, "Hypixel", "mc.hypixel.net", "inst1") >> }

\* Array.prototype.find: the first element of list among those at the
\* matching indices, or NoServer (undefined) when nothing matches.
NoServer == Server(-1, "", "", "")

Find(list, matching) ==
    IF matching = {} THEN NoServer
    ELSE list[CHOOSE i \in matching : \A j \in matching : i <= j]

\* The indices of the servers with this id, this host, this name.
WithId(list, id) == {i \in DOMAIN list : list[i].id = id}
WithHost(list, host) == {i \in DOMAIN list : list[i].host = host}
WithName(list, name) == {i \in DOMAIN list : list[i].name = name}

(***************************************************************************)
(* Power control: minekuaiApiRequest and the commands 开服, 重启             *)
(***************************************************************************)

\* maxRetries: the default of minekuaiApiRequest and what both commands pass.
MaxRetries == 3
\* setTimeout(resolve, 1000 * attempt) between attempts.
BackoffBaseMs == 1000
\* setTimeout(resolve, 1000) between restart and kill.
RestartPauseMs == 1000

\* The errors ctx.http.post may reject with.
HttpErrors == {"e1", "e2"}

\* A command argument <id:number> that was not given.
Absent == -1
CommandIds == {Absent, 0, 1, 2, 3}

\* The signals each command sends, in order.
SignalsOf(cmd) == IF cmd = "kaifu" THEN <<"start">> ELSE <<"restart", "kill">>

NoError == [msg |-> "none", retries |-> 0, last |-> ""]
\* throw new Error('麦块API密钥未配置') / ('麦块API地址未配置')
KeyMissing == [msg |-> "no_api_key", retries |-> 0, last |-> ""]
UrlMissing == [msg |-> "no_api_url", retries |-> 0, last |-> ""]
\* throw new Error(`麦块API请求失败，已重试${maxRetries}次: ${lastError.message}`)
Exhausted(maxRetries, lastError) ==
    [msg |-> "retries_exhausted", retries |-> maxRetries, last |-> lastError]

\* What a command returns: the kind of message and the values it prints.
Reply(kind, cmd, server, id, cause) ==
    [kind |-> kind, cmd |-> cmd, server |-> server, id |-> id, cause |-> cause]
NoReply == Reply("none", "", "", Absent, NoError)

\* The message of the command's catch block:
\* `❌ 启动服务器 ${server.name} 失败: ${error.message}` (开服)
\* `❌ 重启服务器 ${server.name} 失败: ${error.message}` (重启)
FailureReply(cmd, server, error) == Reply("failed", cmd, server.name, Absent, error)

\* `✅ 已发送启动指令到服务器 ${server.name} (ID: ${id})`
SuccessReply(cmd, server, id) == Reply("sent", cmd, server.name, id, NoError)

Event(ev, signal, n, err) == [ev |-> ev, signal |-> signal, n |-> n, err |-> err]

PwIdle ==
    [cmd |-> "none", id |-> Absent, pc |-> "idle", server |-> NoServer,
     step |-> 0, attempt |-> 0, lastError |-> "", reply |-> NoReply]

\* The check left out: the request goes on without key or URL.
ConfigError_Unchecked(key, url) == NoError

\* The configuration check that opens minekuaiApiRequest (index.ts 102-110).
ConfigError(key, url) ==
    IF key = "" THEN KeyMissing
    ELSE IF url = "" THEN UrlMissing
    ELSE NoError

\* The same delay before every attempt.
BackoffDelay_Constant(attempt) == BackoffBaseMs

\* The delay before the next attempt (index.ts 136).
BackoffDelay(attempt) == BackoffBaseMs * attempt

\* minekuaiApiRequest up to its first await: either the configuration check
\* throws, which the command's catch turns into its failure reply, or attempt 1
\* is posted.
CallRequest(p, step) ==
    LET signal == SignalsOf(p.cmd)[step]
        cfgErr == ConfigError(apiKey, apiUrl)
    IN  IF cfgErr # NoError
        THEN /\ pw' = [p EXCEPT !.pc = "done", !.step = step,
                                !.reply = FailureReply(p.cmd, p.server, cfgErr)]
             /\ trace' = IF step = 1 THEN <<>> ELSE trace
        ELSE /\ pw' = [p EXCEPT !.pc = "post", !.step = step, !.attempt = 1,
                                !.lastError = ""]
             /\ trace' = (IF step = 1 THEN <<>> ELSE trace)
                            \o <<Event("post", signal, 1, "")>>

\* The server is looked up by id and instance id together: a server without
\* an instance id is reported like an id that is not configured.
StartCommand_UnmappedAsNotFound(cmd, id) ==
    /\ pw.pc \in {"idle", "done"}
    /\ LET server == Find(servers, {i \in WithId(servers, id) :
                                       servers[i].minekuaiInstanceId # ""})
           p == [PwIdle EXCEPT !.cmd = cmd, !.id = id, !.server = server]
       IN  IF id = Absent \/ id = 0
           THEN /\ pw' = [p EXCEPT !.pc = "done", !.server = NoServer,
                                   !.reply = Reply("need_id", cmd, "", Absent, NoError)]
                /\ trace' = <<>>
           ELSE IF server = NoServer
           THEN /\ pw' = [p EXCEPT !.pc = "done",
                                   !.reply = Reply("not_found", "", "", id, NoError)]
                /\ trace' = <<>>
           ELSE CallRequest(p, 1)
    /\ UNCHANGED <<textVars, cfgVars, statusVars, firstFailure>>

\* The command's action up to its first await (index.ts 146-161, 170-186).
StartCommand(cmd, id) ==
    /\ pw.pc \in {"idle", "done"}
    /\ LET server == Find(servers, WithId(servers, id))
           p == [PwIdle EXCEPT !.cmd = cmd, !.id = id, !.server = server]
       IN  IF id = Absent \/ id = 0                       \* if (!id)
           THEN /\ pw' = [p EXCEPT !.pc = "done", !.server = NoServer,
                                   !.reply = Reply("need_id", cmd, "", Absent, NoError)]
                /\ trace' = <<>>
           ELSE IF server = NoServer                      \* if (!server)
           THEN /\ pw' = [p EXCEPT !.pc = "done",
                                   !.reply = Reply("not_found", "", "", id, NoError)]
                /\ trace' = <<>>
           ELSE IF server.minekuaiInstanceId = ""         \* if (!server.minekuaiInstanceId)
           THEN /\ pw' = [p EXCEPT !.pc = "done",
                                   !.reply = Reply("unmapped", "", server.name, Absent, NoError)]
                /\ trace' = <<>>
           ELSE CallRequest(p, 1)
    /\ UNCHANGED <<textVars, cfgVars, statusVars, firstFailure>>

\* The first failure message a caller has seen, kept with the signal whose
\* request produced it.
Remember(reply, signal) ==
    IF firstFailure.reply = NoReply
    THEN [reply |-> reply, signal |-> signal]
    ELSE firstFailure

\* 重启 does not pause after restart: kill is posted as soon as restart is
\* acknowledged.
PostSucceeds_NoPause ==
    /\ pw.pc = "post"
    /\ LET signal == SignalsOf(pw.cmd)[pw.step]
       IN  IF pw.step < Len(SignalsOf(pw.cmd))
           THEN /\ trace' = trace \o
                      << Event("ok", signal, pw.attempt, ""),
                         Event("post", SignalsOf(pw.cmd)[pw.step + 1], 1, "") >>
                /\ pw' = [pw EXCEPT !.pc = "post", !.step = pw.step + 1,
                                    !.attempt = 1, !.lastError = ""]
           ELSE /\ trace' = trace \o <<Event("ok", signal, pw.attempt, "")>>
                /\ pw' = [pw EXCEPT !.pc = "done",
                                    !.reply = SuccessReply(pw.cmd, pw.server, pw.id)]
    /\ UNCHANGED <<textVars, cfgVars, statusVars, firstFailure>>

\* ctx.http.post resolves: minekuaiApiRequest returns the response. 开服 then
\* replies; 重启 starts the 1 s pause after restart and replies after kill.
PostSucceeds ==
    /\ pw.pc = "post"
    /\ LET signal == SignalsOf(pw.cmd)[pw.step]
       IN  /\ trace' = trace \o
                 ( <<Event("ok", signal, pw.attempt, "")>> \o
                   IF pw.step < Len(SignalsOf(pw.cmd))
                   THEN <<Event("pause", "", RestartPauseMs, "")>>
                   ELSE <<>> )
           /\ pw' = IF pw.step < Len(SignalsOf(pw.cmd))
                    THEN [pw EXCEPT !.pc = "pause"]
                    ELSE [pw EXCEPT !.pc = "done",
                                    !.reply = SuccessReply(pw.cmd, pw.server, pw.id)]
    /\ UNCHANGED <<textVars, cfgVars, statusVars, firstFailure>>

\* lastError keeps the error of the first failed attempt.
AttemptFailed_FirstError(p, error) ==
    LET kept == IF p.lastError = "" THEN error ELSE p.lastError
    IN  IF p.attempt < MaxRetries
        THEN [p EXCEPT !.pc = "backoff", !.lastError = kept]
        ELSE [p EXCEPT !.pc = "done", !.lastError = kept,
                       !.reply = FailureReply(p.cmd, p.server, Exhausted(MaxRetries, kept))]

\* The exhaustion of a step that is not the last is swallowed: the command
\* goes on to its next step.
AttemptFailed_Continue(p, error) ==
    IF p.attempt < MaxRetries
    THEN [p EXCEPT !.pc = "backoff", !.lastError = error]
    ELSE IF p.step < Len(SignalsOf(p.cmd))
    THEN [p EXCEPT !.pc = "pause", !.lastError = error]
    ELSE [p EXCEPT !.pc = "done", !.lastError = error,
                   !.reply = FailureReply(p.cmd, p.server, Exhausted(MaxRetries, error))]

\* The catch block of one attempt (index.ts 131-138) and, after the last
\* attempt, the throw of line 141 caught by the command.
AttemptFailed(p, error) ==
    IF p.attempt < MaxRetries
    THEN [p EXCEPT !.pc = "backoff", !.lastError = error]
    ELSE [p EXCEPT !.pc = "done", !.lastError = error,
                   !.reply = FailureReply(p.cmd, p.server, Exhausted(MaxRetries, error))]

\* ctx.http.post rejects with error.
PostFails(error) ==
    /\ pw.pc = "post"
    /\ LET signal == SignalsOf(pw.cmd)[pw.step]
           next == AttemptFailed(pw, error)
       IN  /\ pw' = next
           /\ trace' = trace \o
                 ( <<Event("fail", signal, pw.attempt, error)>> \o
                   IF next.pc = "backoff"
                   THEN <<Event("backoff", signal, BackoffDelay(pw.attempt), "")>>
                   ELSE <<>> )
           /\ firstFailure' = IF next.pc = "done"
                              THEN Remember(next.reply, signal)
                              ELSE firstFailure
    /\ UNCHANGED <<textVars, cfgVars, statusVars>>

\* The backoff timer fires: the loop posts the next attempt.
BackoffElapsed ==
    /\ pw.pc = "backoff"
    /\ pw' = [pw EXCEPT !.pc = "post", !.attempt = pw.attempt + 1]
    /\ trace' = trace \o
          <<Event("post", SignalsOf(pw.cmd)[pw.step], pw.attempt + 1, "")>>
    /\ UNCHANGED <<textVars, cfgVars, statusVars, firstFailure>>

\* The 1 s pause of 重启 is over: minekuaiApiRequest(..., 'kill', 3).
PauseElapsed ==
    /\ pw.pc = "pause"
    /\ CallRequest(pw, pw.step + 1)
    /\ UNCHANGED <<textVars, cfgVars, statusVars, firstFailure>>

(***************************************************************************)
(* Status queries: the cache, getServerStatus and the commands             *)
(***************************************************************************)

\* The values of config.apiSettings.apiProvider.
Providers == {"mcstatus", "lazy"}

\* Date.now() advances in steps of ClockStepMs up to MaxTicks steps.
ClockStepMs == 30000
MaxTicks == 4
MaxTime == ClockStepMs * MaxTicks

\* The period of the setInterval that sweeps the cache.
SweepPeriodMs == 60000

\* Milliseconds per second: cacheTime * 1000.
MsPerSecond == 1000

\* The command invocations followed: two may be in flight together.
Slots == {1, 2}

\* testServers of mcstatus.api -t (index.ts 609-612).
TestServers ==
    << [name |-> "Hypixel", host |-> "mc.hypixel.net"],
       [name |-> "Demo2", host |-> "demo.mcstatus.io"] >>

\* String.prototype.toLowerCase on the provider names and the server names
\* given; every other string used is in lower case already.
ToLowerCase(str) ==
    CASE str = "Lazy" -> "lazy"
      [] str = "LAZY" -> "lazy"
      [] str = "Hypixel" -> "hypixel"
      [] str = "Demo" -> "demo"
      [] OTHER -> str

\* The addresses queried: the hosts of the configured servers and what a
\* caller gives as [server] that is queried as an address.
Addresses == {"mc.hypixel.net", "demo.mcstatus.io", "play.example.com", "hypixel", "7"}

\* cacheKey = `mcstatus:${address}:${enableQuery}:${apiProvider}`. The last
\* two parts hold no colon, so the string determines the three parts.
CacheKey_NoProvider(address, query, provider) ==
    [address |-> address, query |-> query, provider |-> "mcstatus"]

CacheKey(address, query, provider) ==
    [address |-> address, query |-> query, provider |-> provider]

Keys == [address : Addresses, query : BOOLEAN, provider : Providers]

\* A status response: host, query and provider name the request it answers.
Response(address, query, provider, online, t) ==
    [host |-> address, query |-> query, provider |-> provider,
     online |-> online, retrieved_at |-> t]
NoData == Response("", FALSE, "", FALSE, -1)

\* cache.get(key) of a key that is not in the Map.
NoEntry == [data |-> NoData, timestamp |-> -1]

\* The test of line 485 with <= for <.
Fresh_Inclusive(entry, t) ==
    entry # NoEntry /\ t - entry.timestamp <= cacheTime * MsPerSecond

\* cached && Date.now() - cached.timestamp < config.querySettings.cacheTime * 1000
Fresh(entry, t) ==
    entry # NoEntry /\ t - entry.timestamp < cacheTime * MsPerSecond

\* One call of getServerStatus; upstream is what the provider answered it
\* ("none" before the answer and for a call served from the cache).
Call(name, address, query, provider, force, key, st, data) ==
    [name |-> name, address |-> address, query |-> query, provider |-> provider,
     force |-> force, key |-> key, st |-> st, data |-> data, upstream |-> "none"]

\* The cache is read whether or not force is set.
GetServerStatus_IgnoreForce(name, address, query, force, provider) ==
    LET key == CacheKey(address, query, provider)
    IN  IF address = ""
        THEN Call(name, address, query, provider, force, key, "err", NoData)
        ELSE IF Fresh(cache[key], now)
        THEN Call(name, address, query, provider, force, key, "hit", cache[key].data)
        ELSE Call(name, address, query, provider, force, key, "pending", NoData)

\* getServerStatus up to its first await (index.ts 475-506), for the server
\* called name, with provider the value of config.apiSettings.apiProvider:
\* "err" - it threw, "hit" - it returned the cached data, "pending" - it
\* awaits the provider's answer.
GetServerStatus(name, address, query, force, provider) ==
    LET key == CacheKey(address, query, provider)
    IN  IF address = ""
        THEN Call(name, address, query, provider, force, key, "err", NoData)
        ELSE IF ~force /\ Fresh(cache[key], now)
        THEN Call(name, address, query, provider, force, key, "hit", cache[key].data)
        ELSE Call(name, address, query, provider, force, key, "pending", NoData)

Pending(calls) == \E i \in 1..Len(calls) : calls[i].st = "pending"

\* One line of the all-servers report.
Entry(name, online, players, status) ==
    [name |-> name, online |-> online, players |-> players, status |-> status]

\* A failed query is reported like an offline server.
ResultEntry_ErrorAsOffline(call) ==
    IF call.st = "err" THEN Entry(call.name, FALSE, "offline", NoData)
    ELSE IF call.data.online THEN Entry(call.name, TRUE, "count", call.data)
    ELSE Entry(call.name, FALSE, "offline", NoData)

\* The body of the map of getAllServersStatus (index.ts 284-303): players is
\* '错误' for a failed query, '离线' for an offline server and the count and
\* version of the status otherwise.
ResultEntry(call) ==
    IF call.st = "err" THEN Entry(call.name, FALSE, "error", NoData)
    ELSE IF call.data.online THEN Entry(call.name, TRUE, "count", call.data)
    ELSE Entry(call.name, FALSE, "offline", NoData)

\* results of getAllServersStatus: Promise.all keeps the order of the calls.
Results(calls) == [i \in 1..Len(calls) |-> ResultEntry(calls[i])]

\* servers.sort((a, b) => a.id - b.id): a stable sort, in place.
RECURSIVE Insert(_, _)
Insert(sorted, s) ==
    IF sorted = <<>> THEN <<s>>
    ELSE IF s.id < sorted[1].id THEN <<s>> \o sorted
    ELSE <<sorted[1]>> \o Insert(Tail(sorted), s)

RECURSIVE SortById(_)
SortById(list) ==
    IF list = <<>> THEN <<>>
    ELSE Insert(SortById(SubSeq(list, 1, Len(list) - 1)), list[Len(list)])

\* One invocation of a command: arg is the argument [server] mcstatus was
\* given, or the provider mcstatus.api was given with -s; info is the id
\* given with -i.
ReqIdle ==
    [cmd |-> "none", arg |-> "", info |-> Absent, mode |-> "none", pc |-> "idle", force |-> FALSE,
     switched |-> FALSE, original |-> "", calls |-> <<>>, reply |-> "none"]

\* What the command returns once its queries have settled.
ReplyKind(mode, calls) ==
    CASE mode = "all" -> "all"
      [] mode = "test" -> "api_test"
      [] mode = "info" ->
            IF calls[1].st = "err" THEN "info_failed"
            ELSE IF calls[1].data.online THEN "info" ELSE "info_offline"
      [] mode = "direct" ->
            IF calls[1].st = "err" THEN "direct_failed"
            ELSE IF calls[1].data.online THEN "direct" ELSE "direct_offline"

\* The command of slot r has started its queries: it waits if one of them is
\* pending, else it returns, and the finally of the -a option puts
\* originalProvider back.
Started(r, cmd, arg, info, mode, force, switched, prov, calls) ==
    /\ req' = [req EXCEPT ![r] =
                  [cmd |-> cmd, arg |-> arg, info |-> info, mode |-> mode,
                   pc |-> IF Pending(calls) THEN "wait" ELSE "done",
                   force |-> force, switched |-> switched,
                   original |-> IF switched THEN apiProvider ELSE "",
                   calls |-> calls,
                   reply |-> IF Pending(calls) THEN "none" ELSE ReplyKind(mode, calls)]]
    /\ apiProvider' = IF Pending(calls) THEN prov ELSE apiProvider

\* The command of slot r returns kind without a query.
Returned(r, cmd, arg, info, kind) ==
    req' = [req EXCEPT ![r] =
               [ReqIdle EXCEPT !.cmd = cmd, !.arg = arg, !.info = info,
                               !.pc = "done", !.reply = kind]]

\* handleMcStatusCommand (index.ts 229-257) up to the first await, with prov
\* the provider in force.
HandleMcStatusCommand(r, server, list, info, force, switched, prov) ==
    IF list
    THEN /\ IF Len(servers) = 0
            THEN Returned(r, "mcstatus", server, info, "list_empty") /\ UNCHANGED servers
            ELSE Returned(r, "mcstatus", server, info, "list") /\ servers' = SortById(servers)
         /\ UNCHANGED apiProvider
    ELSE IF info # Absent /\ info # 0
    THEN LET found == Find(servers, WithId(servers, info))
         IN  IF found = NoServer
             THEN Returned(r, "mcstatus", server, info, "not_found") /\ UNCHANGED <<servers, apiProvider>>
             ELSE /\ Started(r, "mcstatus", server, info, "info", force, switched, prov,
                        <<GetServerStatus(found.name, found.host, enableQuery, force, prov)>>)
                  /\ UNCHANGED servers
    ELSE IF server = ""
    THEN IF Len(servers) = 0
         THEN Returned(r, "mcstatus", server, info, "all_empty") /\ UNCHANGED <<servers, apiProvider>>
         ELSE /\ Started(r, "mcstatus", server, info, "all", force, switched, prov,
                    [i \in 1..Len(servers) |->
                        GetServerStatus(servers[i].name, servers[i].host,
                                        enableQuery, force, prov)])
              /\ UNCHANGED servers
    ELSE LET found == Find(servers,
                          {i \in DOMAIN servers :
                              servers[i].name = server \/ ToString(servers[i].id) = server})
         IN  /\ IF found # NoServer
                THEN Started(r, "mcstatus", server, info, "info", force, switched, prov,
                        <<GetServerStatus(found.name, found.host, enableQuery, force, prov)>>)
                ELSE Started(r, "mcstatus", server, info, "direct", force, switched, prov,
                        <<GetServerStatus(server, server, enableQuery, force, prov)>>)
             /\ UNCHANGED servers

\* A hit renews the entry: its timestamp is set to the time of the read.
McStatus_SlidingExpiration(r, server, list, info, force, api) ==
    /\ req[r].pc \in {"idle", "done"}
    /\ IF api # ""
       THEN IF ToLowerCase(api) \in Providers
            THEN HandleMcStatusCommand(r, server, list, info, force, TRUE, ToLowerCase(api))
            ELSE Returned(r, "mcstatus", server, info, "invalid_provider")
                 /\ UNCHANGED <<servers, apiProvider>>
       ELSE HandleMcStatusCommand(r, server, list, info, force, FALSE, apiProvider)
    /\ cache' = [k \in Keys |->
                    IF \E i \in DOMAIN req'[r].calls :
                          req'[r].calls[i].st = "hit" /\ req'[r].calls[i].key = k
                    THEN [cache[k] EXCEPT !.timestamp = now]
                    ELSE cache[k]]
    /\ UNCHANGED <<textVars, cacheTime, enableQuery, apiKey, apiUrl, now, lastSweep, powerVars>>

\* The action of the command mcstatus (index.ts 206-226) up to its first await.
McStatus(r, server, list, info, force, api) ==
    /\ req[r].pc \in {"idle", "done"}
    /\ IF api # ""
       THEN IF ToLowerCase(api) \in Providers
            THEN HandleMcStatusCommand(r, server, list, info, force, TRUE, ToLowerCase(api))
            ELSE Returned(r, "mcstatus", server, info, "invalid_provider")
                 /\ UNCHANGED <<servers, apiProvider>>
       ELSE HandleMcStatusCommand(r, server, list, info, force, FALSE, apiProvider)
    /\ UNCHANGED <<textVars, cacheTime, enableQuery, apiKey, apiUrl, now, cache, lastSweep, powerVars>>

\* -s takes whatever name it is given.
McStatusApi_Unvalidated(r, switch, test) ==
    /\ req[r].pc \in {"idle", "done"}
    /\ IF switch # ""
       THEN Returned(r, "api", switch, Absent, "switched") /\ apiProvider' = ToLowerCase(switch)
       ELSE IF test
       THEN Started(r, "api", switch, Absent, "test", TRUE, FALSE, apiProvider,
               <<GetServerStatus(TestServers[1].name, TestServers[1].host,
                                 FALSE, TRUE, apiProvider)>>)
       ELSE Returned(r, "api", switch, Absent, "api_info") /\ UNCHANGED apiProvider
    /\ UNCHANGED <<textVars, servers, cacheTime, enableQuery, apiKey, apiUrl,
                   now, cache, lastSweep, powerVars>>

\* The action of the command mcstatus.api (index.ts 598-642) up to its first
\* await: -s switches the provider, -t starts the test of the first server.
McStatusApi(r, switch, test) ==
    /\ req[r].pc \in {"idle", "done"}
    /\ IF switch # ""
       THEN IF ToLowerCase(switch) \in Providers
            THEN Returned(r, "api", switch, Absent, "switched") /\ apiProvider' = ToLowerCase(switch)
            ELSE Returned(r, "api", switch, Absent, "invalid_provider") /\ UNCHANGED apiProvider
       ELSE IF test
       THEN Started(r, "api", switch, Absent, "test", TRUE, FALSE, apiProvider,
               <<GetServerStatus(TestServers[1].name, TestServers[1].host,
                                 FALSE, TRUE, apiProvider)>>)
       ELSE Returned(r, "api", switch, Absent, "api_info") /\ UNCHANGED apiProvider
    /\ UNCHANGED <<textVars, servers, cacheTime, enableQuery, apiKey, apiUrl,
                   now, cache, lastSweep, powerVars>>

\* The value '在线' of the status field of the Lazy API, and '离线'.
LazyOnline == "zaixian"
LazyOffline == "lixian"

\* The body the Lazy API answers with for a server it finds online, offline
\* or in a state it does not name ("unknown": no status field).
LazyAnswer(outcome) ==
    [status |-> CASE outcome = "online" -> LazyOnline
                  [] outcome = "offline" -> LazyOffline
                  [] OTHER -> "",
     host |-> ""]

\* The body api.mcstatus.io answers with: the status itself.
McStatusAnswer(outcome) == [online |-> outcome = "online"]

\* Every status but '离线' counts as online.
TransformLazyResponse_OnlineUnlessOffline(lazyData, host, t) ==
    [online |-> lazyData.status # LazyOffline,
     host |-> IF lazyData.host # "" THEN lazyData.host ELSE host,
     retrieved_at |-> t]

\* transformLazyResponse (index.ts 553-592): online, host and retrieved_at
\* of the status it builds.
TransformLazyResponse(lazyData, host, t) ==
    [online |-> lazyData.status = LazyOnline,
     host |-> IF lazyData.host # "" THEN lazyData.host ELSE host,
     retrieved_at |-> t]

\* The status getServerStatus gets from the provider (index.ts 494-506).
ProviderStatus(provider, address, outcome, t) ==
    IF provider = "lazy"
    THEN TransformLazyResponse(LazyAnswer(outcome), address, t)
    ELSE [online |-> McStatusAnswer(outcome).online, host |-> address, retrieved_at |-> t]

\* The key is built when the answer is stored, from the provider configured
\* then.
CacheSet_KeyAtStore(c, data) ==
    [cache EXCEPT ![CacheKey(c.address, c.query, apiProvider)] =
                      [data |-> data, timestamp |-> now]]

\* cache.set(cacheKey, { data, timestamp }): the key is the one computed
\* before the request was sent.
CacheSet(c, data) ==
    [cache EXCEPT ![c.key] = [data |-> data, timestamp |-> now]]

\* A failed request drops the entry of the key.
CacheAfter_DropOnFail(c, outcome, data) ==
    IF outcome = "fail" THEN [cache EXCEPT ![c.key] = NoEntry]
    ELSE CacheSet(c, data)

\* What getServerStatus leaves in the cache once the provider has answered
\* call c (index.ts 509-520): data stored under the key of the call with the
\* time of the answer, or, when the request failed, the cache as it was.
CacheAfter(c, outcome, data) ==
    IF outcome = "fail" THEN cache
    ELSE CacheSet(c, data)

\* The command returns with the first answer, as with Promise.race.
HttpReturns_FirstSettled(r, i, outcome) ==
    /\ req[r].pc = "wait"
    /\ i \in 1..Len(req[r].calls)
    /\ req[r].calls[i].st = "pending"
    /\ LET c == req[r].calls[i]
           status == ProviderStatus(c.provider, c.address, outcome, now)
           data == Response(status.host, c.query, c.provider, status.online,
                            status.retrieved_at)
           settled == IF outcome = "fail"
                      THEN [c EXCEPT !.st = "err", !.upstream = outcome]
                      ELSE [c EXCEPT !.st = "ok", !.data = data, !.upstream = outcome]
           calls1 == [req[r].calls EXCEPT ![i] = settled]
       IN  /\ cache' = IF outcome = "fail" THEN cache
                       ELSE [cache EXCEPT ![c.key] = [data |-> data, timestamp |-> now]]
           /\ req' = [req EXCEPT ![r] =
                         [@ EXCEPT !.calls = calls1, !.pc = "done",
                                   !.reply = IF req[r].mode = "all" THEN "all" ELSE "none"]]
           /\ apiProvider' = IF req[r].switched THEN req[r].original ELSE apiProvider
    /\ UNCHANGED <<textVars, servers, cacheTime, enableQuery, apiKey, apiUrl, now, lastSweep, powerVars>>

\* The provider answers call i of slot r: online, offline, or not at all
\* ("fail": the request rejects). getServerStatus stores an answer in the
\* cache and returns it, or throws. The test of mcstatus.api goes on to its
\* next server; a command whose queries have all settled returns.
HttpReturns(r, i, outcome) ==
    /\ req[r].pc = "wait"
    /\ i \in 1..Len(req[r].calls)
    /\ req[r].calls[i].st = "pending"
    /\ LET c == req[r].calls[i]
           status == ProviderStatus(c.provider, c.address, outcome, now)
           data == Response(status.host, c.query, c.provider, status.online,
                            status.retrieved_at)
           settled == IF outcome = "fail"
                      THEN [c EXCEPT !.st = "err", !.upstream = outcome]
                      ELSE [c EXCEPT !.st = "ok", !.data = data, !.upstream = outcome]
           calls1 == [req[r].calls EXCEPT ![i] = settled]
           calls2 == IF req[r].mode = "test" /\ i < Len(TestServers)
                     THEN Append(calls1,
                             GetServerStatus(TestServers[i + 1].name, TestServers[i + 1].host,
                                             FALSE, TRUE, apiProvider))
                     ELSE calls1
       IN  /\ cache' = CacheAfter(c, outcome, data)
           /\ req' = [req EXCEPT ![r] =
                         IF Pending(calls2)
                         THEN [@ EXCEPT !.calls = calls2]
                         ELSE [@ EXCEPT !.calls = calls2, !.pc = "done",
                                        !.reply = ReplyKind(req[r].mode, calls2)]]
           /\ apiProvider' = IF ~Pending(calls2) /\ req[r].switched
                             THEN req[r].original
                             ELSE apiProvider
    /\ UNCHANGED <<textVars, servers, cacheTime, enableQuery, apiKey, apiUrl, now, lastSweep, powerVars>>

\* The sweep timer is due.
SweepDue == now - lastSweep >= SweepPeriodMs

\* Time passes; the sweep runs when it is due.
Tick ==
    /\ ~SweepDue
    /\ now + ClockStepMs <= MaxTime
    /\ now' = now + ClockStepMs
    /\ UNCHANGED <<textVars, cfgVars, cache, req, lastSweep, powerVars>>

\* The lifetime is taken in milliseconds: the factor 1000 is missing.
Stale_Milliseconds(entry) ==
    entry # NoEntry /\ now - entry.timestamp > cacheTime

\* now - value.timestamp > config.querySettings.cacheTime * 1000
Stale(entry) ==
    entry # NoEntry /\ now - entry.timestamp > cacheTime * MsPerSecond

\* The operands of the subtraction are swapped: no entry is ever old enough.
Sweep_Reversed ==
    /\ SweepDue
    /\ cache' = [k \in Keys |->
                    IF cache[k] # NoEntry
                       /\ cache[k].timestamp - now > cacheTime * MsPerSecond
                    THEN NoEntry
                    ELSE cache[k]]
    /\ lastSweep' = now
    /\ UNCHANGED <<textVars, cfgVars, now, req, powerVars>>

\* The callback of setInterval (index.ts 645-652).
Sweep ==
    /\ SweepDue
    /\ cache' = [k \in Keys |-> IF Stale(cache[k]) THEN NoEntry ELSE cache[k]]
    /\ lastSweep' = now
    /\ UNCHANGED <<textVars, cfgVars, now, req, powerVars>>

(***************************************************************************)
(* Formatting: the strippers of the colour codes of a MOTD                 *)
(***************************************************************************)

\* Characters: '§', the style codes 'a' and 'r' (of [0-9a-fk-or]), 'z',
\* which is no style code, and the line feed, which '.' does not match.
SectionSign == "section"
LineFeed == "lf"
StyleCodes == {"a", "r"}
Chars == {SectionSign, LineFeed, "z"} \cup StyleCodes

\* The longest MOTD followed.
MaxLen == 4

NotStripped == [by |-> "none", text |-> <<>>]

\* str.replace(regex, '') with the flag g, for a regex that matches '§' and
\* one character of the set second: the matches are found from left to
\* right in str, none overlapping another, and removed.
RECURSIVE ReplaceAll(_, _)
ReplaceAll(text, second) ==
    IF Len(text) < 2 THEN text
    ELSE IF text[1] = SectionSign /\ text[2] \in second
    THEN ReplaceAll(SubSeq(text, 3, Len(text)), second)
    ELSE <<text[1]>> \o ReplaceAll(Tail(text), second)

\* removeFormatting (unnamed/part_000 28-30): str.replace(/§[0-9a-fk-or]/g, '')
RemoveFormatting(text) == ReplaceAll(text, StyleCodes)

\* cleanMotd.replace(/§./g, '') (index.ts 559 and 376)
StripColorCodes(text) == ReplaceAll(text, Chars \ {LineFeed})

\* A MOTD arrives, one character after the other.
Receive(char) ==
    /\ Len(motd) < MaxLen
    /\ motd' = Append(motd, char)
    /\ out' = NotStripped
    /\ UNCHANGED <<cfgVars, statusVars, powerVars>>

\* queryServer prints removeFormatting(response.pureMotd || ...).
PrintMotd ==
    /\ out' = [by |-> "removeFormatting", text |-> RemoveFormatting(motd)]
    /\ UNCHANGED <<cfgVars, statusVars, powerVars, motd>>

\* transformLazyResponse and getServerInfo clean the MOTD.
CleanMotd ==
    /\ out' = [by |-> "replace", text |-> StripColorCodes(motd)]
    /\ UNCHANGED <<cfgVars, statusVars, powerVars, motd>>

\* C16: whatever the text, also with codes next to each other or one inside
\* the other, what a stripper returns holds no '§' followed by a style code.
C16_NoCodeLeft ==
    out # NotStripped =>
        \A i \in 1..(Len(out.text) - 1) :
            ~(out.text[i] = SectionSign /\ out.text[i + 1] \in StyleCodes)

(***************************************************************************)
(* Status queries: properties                                              *)
(***************************************************************************)

\* The command of slot r starts in this step.
Starts(r) == req[r].pc \in {"idle", "done"} /\ req'[r] # req[r]

\* Call i of slot r gets the provider's answer in this step.
Answered(r, i) ==
    /\ i \in DOMAIN req[r].calls /\ i \in DOMAIN req'[r].calls
    /\ req[r].calls[i].st = "pending"
    /\ req'[r].calls[i].st = "ok"

\* C1: a query without force returns the stored value, without calling the
\* provider, exactly when the cache holds an entry under its key whose age is
\* below cacheTime seconds; otherwise the provider is called.
C1_HitOrMiss ==
    [][ \A r \in Slots : Starts(r) =>
          \A i \in DOMAIN req'[r].calls :
             LET c == req'[r].calls[i]
                 entry == cache[c.key]
             IN  (~c.force /\ c.address # "") =>
                    IF entry # NoEntry /\ now - entry.timestamp < cacheTime * MsPerSecond
                    THEN c.st = "hit" /\ c.data = entry.data
                    ELSE c.st = "pending" /\ c.data = NoData ]_vars

C1_Witness ==
    \E r \in Slots : \E i \in DOMAIN req[r].calls :
        LET c == req[r].calls[i]
        IN  /\ ~c.force /\ c.st = "hit"
            /\ c.data.retrieved_at < now
            /\ cache[c.key].data = c.data

\* C2: a query with force never returns the cached value but calls the
\* provider, also when a fresh entry is stored under its key; the answer
\* replaces the entry, stored at the time of the answer, and is what a later
\* query without force is served from the cache.
C2_ForceRefresh ==
    [][ \A r \in Slots :
          /\ \A i \in DOMAIN req'[r].calls :
                req'[r].calls[i].force => req'[r].calls[i].st # "hit"
          /\ Starts(r) =>
                \A i \in DOMAIN req'[r].calls :
                   LET c == req'[r].calls[i]
                   IN  /\ (c.force /\ c.address # "") => c.st = "pending"
                       /\ c.st = "hit" => c.data = cache[c.key].data
          /\ \A i \in DOMAIN req[r].calls :
                Answered(r, i) =>
                   LET c == req'[r].calls[i]
                   IN  /\ c.data.retrieved_at = now
                       /\ cache'[c.key] = [data |-> c.data, timestamp |-> now] ]_vars

C2_Witness ==
    \E r \in Slots : \E i \in DOMAIN req[r].calls :
        LET c == req[r].calls[i]
        IN  /\ c.force /\ c.st = "ok" /\ req[r].cmd = "mcstatus"
            /\ c.data.retrieved_at > 0
            /\ now - c.data.retrieved_at < cacheTime * MsPerSecond
            /\ cache[c.key] = [data |-> c.data, timestamp |-> c.data.retrieved_at]

\* C3: what a query is served from the cache was fetched for its own
\* address, its own enableQuery flag and its own provider.
C3_KeysIndependent ==
    \A r \in Slots : \A i \in DOMAIN req[r].calls :
        LET c == req[r].calls[i]
        IN  c.st = "hit" =>
               /\ c.data.host = c.address
               /\ c.data.query = c.query
               /\ c.data.provider = c.provider

C3_Witness ==
    \E r \in Slots : \E i \in DOMAIN req[r].calls :
        LET c == req[r].calls[i]
        IN  /\ c.st = "hit" /\ c.provider = "lazy" /\ c.query
            /\ cache[CacheKey(c.address, c.query, "mcstatus")] # NoEntry
            /\ cache[CacheKey(c.address, ~c.query, "lazy")] # NoEntry

\* C4: the all-servers report has one entry for every configured server;
\* the entry of a server whose query failed is marked as an error, every
\* other entry shows the status fetched for its own server, and the command
\* returns the report whatever fails.
C4_PartialFailureIsolation ==
    \A r \in Slots :
        (req[r].pc = "done" /\ req[r].mode = "all") =>
           LET calls == req[r].calls
               res == Results(calls)
           IN  /\ req[r].reply = "all"
               /\ Len(res) = Len(servers)
               /\ {res[i].name : i \in 1..Len(res)} = {servers[j].name : j \in 1..Len(servers)}
               /\ \A i \in 1..Len(res) :
                     LET server == Find(servers, WithHost(servers, calls[i].address))
                     IN  /\ res[i].name = server.name
                         /\ IF calls[i].st = "err"
                            THEN res[i].players = "error" /\ ~res[i].online
                            ELSE /\ res[i].players # "error"
                                 /\ calls[i].data.host = server.host
                                 /\ res[i].online = calls[i].data.online
                                 /\ res[i].online => res[i].status = calls[i].data

C4_Witness ==
    \E r \in Slots :
        /\ req[r].pc = "done" /\ req[r].mode = "all"
        /\ Len(req[r].calls) = 3
        /\ req[r].calls[2].st = "err"
        /\ req[r].calls[1].st = "ok" /\ req[r].calls[1].data.online
        /\ req[r].calls[3].st = "ok" /\ ~req[r].calls[3].data.online

\* C5: the entries of the all-servers report are in ascending order of the
\* servers' ids.
C5_ReportInIdOrder ==
    \A r \in Slots :
        (req[r].pc = "done" /\ req[r].mode = "all") =>
           LET res == Results(req[r].calls)
               IdOf(name) == Find(servers, WithName(servers, name)).id
           IN  \A i, j \in 1..Len(res) : i < j => IdOf(res[i].name) < IdOf(res[j].name)

\* The token is the decimal form of an integer, and that integer.
IsInteger(token) == \E n \in 0..9 : ToString(n) = token
ParseInt(token) == CHOOSE n \in 0..9 : ToString(n) = token

\* The indices of the servers whose name equals token but for case.
WithNameIgnoringCase(list, token) ==
    {i \in DOMAIN list : ToLowerCase(list[i].name) = ToLowerCase(token)}

\* The command of slot r was given a [server] token and queried for it.
Resolves(r) ==
    req[r].cmd = "mcstatus" /\ req[r].arg # "" /\ req[r].mode \in {"info", "direct"}

\* C12: a token that is an integer resolves to the server with that id, also
\* when another server is named like the token; any other token resolves to
\* the server whose name equals it but for case; a token that is no integer
\* and no name is queried as an address, without the registry.
C12_ResolutionOrder ==
    \A r \in Slots :
        Resolves(r) =>
           LET token == req[r].arg
               call == req[r].calls[1]
               byId == IF IsInteger(token) THEN WithId(servers, ParseInt(token)) ELSE {}
               byName == WithNameIgnoringCase(servers, token)
               QueriesServer(server) ==
                   /\ req[r].mode = "info"
                   /\ call.name = server.name
                   /\ call.address = server.host
           IN  IF byId # {} THEN QueriesServer(Find(servers, byId))
               ELSE IF byName # {} THEN QueriesServer(Find(servers, byName))
               ELSE IF IsInteger(token) THEN TRUE
               ELSE req[r].mode = "direct" /\ call.address = token

\* C14: a token that is an integer, when no server has that id and none that
\* name, is answered as not found: no query is made for it.
C14_NumericTokenNotFound ==
    \A r \in Slots :
        ( /\ req[r].cmd = "mcstatus" /\ req[r].pc # "idle"
          /\ req[r].reply \notin {"list", "list_empty", "invalid_provider"}
          /\ IsInteger(req[r].arg)
          /\ WithId(servers, ParseInt(req[r].arg)) = {}
          /\ WithNameIgnoringCase(servers, req[r].arg) = {} )
        => /\ req[r].pc = "done"
           /\ req[r].reply = "not_found"
           /\ req[r].calls = <<>>

\* C15: a query the provider answers with a status that is not the online
\* value ends without error in a status that is not online, whatever the
\* address and the provider; the command reports the server as offline, and
\* its line of the all-servers report is an offline entry, not an error entry.
C15_OfflineIsNotError ==
    \A r \in Slots : \A i \in DOMAIN req[r].calls :
        LET call == req[r].calls[i]
        IN  call.upstream \in {"offline", "unknown"} =>
               /\ call.st = "ok"
               /\ ~call.data.online
               /\ call.data.host = call.address
               /\ req[r].pc = "done" =>
                     CASE req[r].mode = "all" ->
                             Results(req[r].calls)[i] = Entry(call.name, FALSE, "offline", NoData)
                       [] req[r].mode = "info" -> req[r].reply = "info_offline"
                       [] req[r].mode = "direct" -> req[r].reply = "direct_offline"
                       [] OTHER -> TRUE

C15_Witness ==
    \E r \in Slots :
        /\ req[r].pc = "done" /\ req[r].mode = "all" /\ Len(req[r].calls) = 3
        /\ req[r].calls[1].upstream = "offline"
        /\ req[r].calls[2].upstream = "unknown"
        /\ req[r].calls[3].upstream = "fail"
        /\ req[r].calls[1].provider = "lazy"

\* C17: when the sweep has run at time now, no entry with
\* timestamp + cacheTime * 1000 <= now is left in the cache: an entry whose
\* age is exactly the cache time is removed too.
C17_SweepRemovesExpired ==
    [][ lastSweep' # lastSweep =>
          \A k \in Keys :
             cache'[k] # NoEntry =>
                cache'[k].timestamp + cacheTime * MsPerSecond > now ]_vars

\* The keys of the server of OneServer, and the times of the first
\* ClockStepMs: what is stored then the clock of MaxTicks steps outlives.
SweptKeys == {CacheKey("mc.hypixel.net", TRUE, provider) : provider \in Providers}
EarlyTimes == {0, ClockStepMs}

\* C18: the sweep runs every SweepPeriodMs whatever the commands do: an
\* entry stored in the cache is in the end removed from it, or replaced by a
\* later one, also when no query reads it again.
C18_EveryEntrySwept ==
    \A k \in SweptKeys : \A t \in EarlyTimes :
        (cache[k].timestamp = t) ~> (cache[k].timestamp # t)

C18_Witness ==
    /\ req[1].pc = "done" /\ req[1].mode = "info"
    /\ req[1].calls[1].st = "ok"
    /\ req[1].calls[1].data.retrieved_at \in EarlyTimes
    /\ cache[req[1].calls[1].key] = NoEntry
    /\ \A k \in Keys : cache[k] = NoEntry
    /\ lastSweep > req[1].calls[1].data.retrieved_at

\* C19: no command changes the list of the configured servers: its
\* elements, their fields and their order stay as configured.
C19_RegistryNeverMutated == [][servers' = servers]_vars

\* The hosts of the configured servers and the addresses of the calls, each
\* with the number of times it occurs.
HostCount(host) == Cardinality(WithHost(servers, host))
CallCount(calls, host) == Cardinality({i \in DOMAIN calls : calls[i].address = host})

\* C20: the all-servers query calls getServerStatus once for every
\* configured server, all of them before it waits for an answer: while it
\* waits no call is added; it returns when every call has settled and not
\* before, so it never returns with a call in flight.
C20_AllDispatchedAllJoined ==
    [][ \A r \in Slots :
          req'[r].mode = "all" =>
             /\ Len(req'[r].calls) = Len(servers)
             /\ \A host \in Addresses : CallCount(req'[r].calls, host) = HostCount(host)
             /\ req[r].pc = "wait" =>
                   /\ DOMAIN req'[r].calls = DOMAIN req[r].calls
                   /\ \A i \in DOMAIN req[r].calls :
                         /\ req'[r].calls[i].address = req[r].calls[i].address
                         /\ req[r].calls[i].st # "pending"
                            => req'[r].calls[i] = req[r].calls[i]
             /\ req'[r].pc = "done" <=> ~Pending(req'[r].calls)
             /\ req'[r].pc = "wait" <=> req'[r].reply = "none"
             /\ req'[r].pc \in {"wait", "done"} ]_vars

C20_Witness ==
    /\ req[1].mode = "all" /\ req[1].pc = "wait" /\ Len(req[1].calls) = 3
    /\ req[1].calls[1].st = "pending"
    /\ req[1].calls[2].st = "ok"
    /\ req[1].calls[3].st = "err"

\* C21: a query served from the cache changes nothing in the cache: the
\* entry keeps its data and its timestamp, so what is served was stored less
\* than cacheTime seconds ago, however often it was read since.
C21_HitIsReadOnly ==
    [][ \A r \in Slots :
          Starts(r) =>
             /\ cache' = cache
             /\ \A i \in DOMAIN req'[r].calls :
                   LET c == req'[r].calls[i]
                   IN  c.st = "hit" =>
                          /\ cache'[c.key] = [data |-> c.data,
                                              timestamp |-> c.data.retrieved_at]
                          /\ now - c.data.retrieved_at < cacheTime * MsPerSecond ]_vars

C21_Witness ==
    /\ cacheTime = 60
    /\ req[1].pc = "done" /\ req[1].mode = "info" /\ ~req[1].force
    /\ req[1].calls[1].st = "hit"
    /\ now = req[1].calls[1].data.retrieved_at + ClockStepMs
    /\ cache[req[1].calls[1].key].timestamp = req[1].calls[1].data.retrieved_at

\* The provider configured when SpecTemp starts: the default of the schema.
DefaultProvider == "mcstatus"

\* C22: when no command given -a is running any more, whether its query
\* succeeded or failed, the configured provider is the one configured
\* before these commands started, however many they were and however their
\* executions were interleaved.
C22_TemporarySwitchRestored ==
    (\A r \in Slots : req[r].pc # "wait") => apiProvider = DefaultProvider

\* C23: a query of a command without -a asks the configured provider, also
\* when the command starts while another, given -a, is still running.
C23_SwitchNotVisible ==
    \A r \in Slots :
        (req[r].cmd = "mcstatus" /\ ~req[r].switched) =>
           \A i \in DOMAIN req[r].calls :
              /\ req[r].calls[i].provider = DefaultProvider
              /\ req[r].calls[i].key.provider = DefaultProvider

\* C24: once mcstatus.api -s has set the provider, and until it is given
\* again, the configured provider is the one it set whenever no command
\* given -a is running: a completed mcstatus -a leaves it as -s set it.
\* (In SpecSwitch slot 2 gives -s and slot 1 runs mcstatus.)
C24_PersistentSwitchStays ==
    ( /\ req[2].cmd = "api" /\ req[2].reply = "switched"
      /\ req[1].pc # "wait" )
    => apiProvider = ToLowerCase(req[2].arg)

\* C25: every entry of the cache holds, under a key that names an address,
\* a query flag and a provider, a status fetched for that address with that
\* flag from that provider, also when the configured provider was switched
\* while the request was in flight.
C25_KeyMatchesEntry ==
    \A k \in Keys :
        cache[k] # NoEntry =>
           /\ cache[k].data.host = k.address
           /\ cache[k].data.query = k.query
           /\ cache[k].data.provider = k.provider
           /\ cache[k].data.retrieved_at = cache[k].timestamp

C25_Witness ==
    \E r \in Slots : \E i \in DOMAIN req[r].calls :
        LET c == req[r].calls[i]
        IN  /\ req[r].switched /\ req[r].pc = "done" /\ c.st = "ok"
            /\ c.provider = "lazy" /\ req[r].original = "lazy"
            /\ apiProvider = "lazy"
            /\ cache[c.key].data = c.data
            /\ cache[CacheKey(c.address, c.query, "mcstatus")] # NoEntry

\* C26: when the request to the provider fails, the query throws and the
\* cache stays as it was: no entry is made under the key, and an entry
\* already there, also one a forced query passed by, keeps data and
\* timestamp.
C26_FailureLeavesCache ==
    [][ \A r \in Slots : \A i \in DOMAIN req[r].calls :
          (req[r].calls[i].st = "pending" /\ req'[r].calls[i].st = "err") =>
             /\ cache' = cache
             /\ req'[r].calls[i].data = NoData
             /\ (req'[r].pc = "done" /\ req'[r].mode = "info")
                => req'[r].reply = "info_failed" ]_vars

C26_Witness ==
    /\ req[1].pc = "done" /\ req[1].force /\ req[1].reply = "info_failed"
    /\ req[1].calls[1].st = "err"
    /\ Fresh(cache[req[1].calls[1].key], now)

\* C27: a sweep deletes no entry younger than the lifetime (one a query
\* would still serve from the cache), and an entry it keeps has the data and
\* the timestamp it had before.
C27_SweepKeepsFresh ==
    [][ lastSweep' # lastSweep =>
          \A k \in Keys :
             /\ (cache[k] # NoEntry
                  /\ now - cache[k].timestamp < cacheTime * MsPerSecond)
                => cache'[k] = cache[k]
             /\ cache'[k] # NoEntry => cache'[k] = cache[k] ]_vars

C27_Witness ==
    /\ lastSweep = now /\ now > 0
    /\ \E k \in Keys :
          /\ cache[k] # NoEntry
          /\ cache[k].timestamp > 0
          /\ now - cache[k].timestamp < cacheTime * MsPerSecond

\* C28: a name that is no provider, given to mcstatus -a or to
\* mcstatus.api -s, is answered with the error message and changes nothing:
\* the configured provider and the cache stay as they are and no query is
\* sent.  (In SpecInvalid slot 1 issues only commands with such a name.)
C28_InvalidProviderRejected ==
    [][ req'[1] # req[1] =>
          /\ req'[1].reply = "invalid_provider"
          /\ req'[1].pc = "done"
          /\ req'[1].calls = <<>>
          /\ req'[2] = req[2]
          /\ apiProvider' = apiProvider
          /\ cache' = cache
          /\ servers' = servers ]_vars

C28_Witness ==
    /\ req[1].reply = "invalid_provider" /\ req[1].cmd = "api"
    /\ req[2].pc = "wait" /\ req[2].switched
    /\ apiProvider = "lazy"
    /\ \E k \in Keys : cache[k] # NoEntry

\* C29: a command that takes an id (kaifu, chongqi, mcstatus -i) and is
\* given the id of a configured server, 0 included, works on that server: it
\* reports neither a missing argument nor an unknown id.
C29_AddressableById ==
    /\ (pw.pc # "idle" /\ WithId(servers, pw.id) # {})
       => /\ pw.reply.kind \notin {"need_id", "not_found"}
          /\ pw.server = Find(servers, WithId(servers, pw.id))
    /\ \A r \in Slots :
          (req[r].cmd = "mcstatus" /\ req[r].info # Absent
           /\ WithId(servers, req[r].info) # {})
          => /\ req[r].mode = "info"
             /\ Len(req[r].calls) = 1
             /\ req[r].calls[1].address = Find(servers, WithId(servers, req[r].info)).host

(***************************************************************************)
(* Power control: properties                                               *)
(***************************************************************************)

Signals == {"start", "restart", "kill"}

\* The events of the request that sends signal, in order.
RequestEvents(signal) == SelectSeq(trace, LAMBDA e : e.signal = signal)

Count(seq, Test(_)) == Cardinality({i \in 1..Len(seq) : Test(seq[i])})

Shape(seq) == [i \in 1..Len(seq) |-> <<seq[i].ev, seq[i].n>>]

IsLastSignal(signal) == signal = SignalsOf(pw.cmd)[Len(SignalsOf(pw.cmd))]

\* C6: a request whose first two attempts fail and whose third succeeds makes
\* exactly three attempts, waits BackoffBaseMs*1 before the second and
\* BackoffBaseMs*2 before the third, makes no attempt after the success, and
\* the command that ends with it reports success.
C6_RetryThenSuccess ==
    \A signal \in Signals :
        LET seg == RequestEvents(signal)
        IN  /\ \A i \in 1..Len(seg) : seg[i].ev = "ok" => i = Len(seg)
            /\ ( /\ Count(seg, LAMBDA e : e.ev = "ok") = 1
                 /\ Count(seg, LAMBDA e : e.ev = "fail") = 2 )
               => /\ Shape(seg) =
                        << <<"post", 1>>, <<"fail", 1>>, <<"backoff", BackoffBaseMs * 1>>,
                           <<"post", 2>>, <<"fail", 2>>, <<"backoff", BackoffBaseMs * 2>>,
                           <<"post", 3>>, <<"ok", 3>> >>
                  /\ IsLastSignal(signal)
                     => pw.pc = "done" /\ pw.reply.kind = "sent"

C6_Witness ==
    /\ pw.cmd = "kaifu" /\ pw.pc = "done" /\ pw.reply.kind = "sent"
    /\ Count(trace, LAMBDA e : e.ev = "fail") = 2
    /\ Count(trace, LAMBDA e : e.ev = "post") = 3

\* C7: a request all of whose attempts fail makes exactly MaxRetries
\* attempts, waits after every failure but the last, and fails with the
\* exhaustion error, which carries the error of the last attempt.
C7_Exhaustion ==
    /\ \A signal \in Signals :
          LET seg == RequestEvents(signal)
          IN  /\ Count(seg, LAMBDA e : e.ev = "post") <= MaxRetries
              /\ Count(seg, LAMBDA e : e.ev = "fail") = MaxRetries
                 => /\ pw.pc = "done"
                    /\ pw.reply.kind = "failed"
                    /\ pw.reply.cause.msg = "retries_exhausted"
    /\ (pw.pc = "done" /\ pw.reply.cause.msg = "retries_exhausted")
       => LET seg == RequestEvents(SignalsOf(pw.cmd)[pw.step])
              last == trace[Len(trace)]
          IN  /\ Count(seg, LAMBDA e : e.ev = "post") = MaxRetries
              /\ Count(seg, LAMBDA e : e.ev = "fail") = MaxRetries
              /\ Count(seg, LAMBDA e : e.ev = "ok") = 0
              /\ Count(seg, LAMBDA e : e.ev = "backoff") = MaxRetries - 1
              /\ last.ev = "fail" /\ last.n = MaxRetries
              /\ last = seg[Len(seg)]
              /\ pw.reply.cause = Exhausted(MaxRetries, last.err)

C7_Witness ==
    /\ pw.pc = "done" /\ pw.reply.cause.msg = "retries_exhausted"
    /\ \E i \in 1..Len(trace) :
          trace[i].ev = "fail" /\ trace[i].err # pw.reply.cause.last

\* C8: with the API key or the API URL missing, a command that reaches
\* minekuaiApiRequest fails at once with the configuration error: nothing is
\* posted, no attempt is counted and no timer is started.
C8_Unconfigured ==
    ( /\ pw.pc # "idle"
      /\ pw.server # NoServer
      /\ pw.server.minekuaiInstanceId # ""
      /\ (apiKey = "" \/ apiUrl = "") )
    => /\ pw.pc = "done"
       /\ pw.reply.kind = "failed"
       /\ pw.reply.cause \in {KeyMissing, UrlMissing}
       /\ pw.attempt = 0
       /\ trace = <<>>

C8_Witness ==
    /\ pw.pc = "done" /\ pw.cmd = "chongqi"
    /\ pw.reply.kind = "failed" /\ pw.reply.cause = UrlMissing
    /\ apiKey # ""

\* C9: once a step of a command has exhausted its retries nothing more is
\* posted: no later step, no compensating signal, no new round of the
\* sequence; every signal posted belongs to the command's sequence.
C9_AbortOnExhaustion ==
    /\ \A i \in 1..Len(trace) :
          trace[i].ev = "post" =>
             \E k \in 1..Len(SignalsOf(pw.cmd)) : SignalsOf(pw.cmd)[k] = trace[i].signal
    /\ \A i, j \in 1..Len(trace) :
          (i < j /\ trace[i].ev = "fail" /\ trace[i].n = MaxRetries)
          => trace[j].ev \notin {"post", "pause", "backoff"}
    /\ (\E i \in 1..Len(trace) : trace[i].ev = "fail" /\ trace[i].n = MaxRetries)
       => pw.pc = "done" /\ pw.reply.kind = "failed"

C9_Witness ==
    /\ pw.cmd = "chongqi" /\ pw.pc = "done" /\ pw.step = 1
    /\ pw.reply.cause.msg = "retries_exhausted"
    /\ Count(trace, LAMBDA e : e.ev = "post") = MaxRetries

\* C10: the failure message of a command whose step exhausted its retries
\* tells which signal failed: two failures with the same message are
\* failures of the same signal.
C10_FailureNamesStep ==
    (pw.pc = "done" /\ pw.reply.cause.msg = "retries_exhausted")
    => (firstFailure.reply = pw.reply
        => firstFailure.signal = SignalsOf(pw.cmd)[pw.step])

\* The place of signal in the sequence of the running command, 0 if none.
StepOf(signal) ==
    IF \E k \in DOMAIN SignalsOf(pw.cmd) : SignalsOf(pw.cmd)[k] = signal
    THEN CHOOSE k \in DOMAIN SignalsOf(pw.cmd) : SignalsOf(pw.cmd)[k] = signal
    ELSE 0

\* C11: the steps of a command are strictly sequential: the first post of
\* step k+1 comes right after the acknowledgement of step k and the pause
\* of RestartPauseMs that follows it, and only once that pause is over; every
\* post is answered before anything else is posted, so at most one is in
\* flight; success is reported only when every step has been acknowledged.
C11_StrictlySequential ==
    /\ \A j \in 1..Len(trace) :
          (trace[j].ev = "post" /\ trace[j].n = 1 /\ StepOf(trace[j].signal) > 1)
          => /\ j >= 3
             /\ trace[j - 1] = Event("pause", "", RestartPauseMs, "")
             /\ trace[j - 2].ev = "ok"
             /\ StepOf(trace[j - 2].signal) = StepOf(trace[j].signal) - 1
    /\ \A j \in 1..Len(trace) :
          trace[j].ev = "post" =>
             IF j < Len(trace)
             THEN /\ trace[j + 1].ev \in {"ok", "fail"}
                  /\ trace[j + 1].signal = trace[j].signal
                  /\ trace[j + 1].n = trace[j].n
             ELSE pw.pc = "post"
    /\ (trace # <<>> /\ trace[Len(trace)].ev = "pause") <=> pw.pc = "pause"
    /\ pw.reply.kind = "sent"
       => /\ pw.pc = "done"
          /\ \A k \in DOMAIN SignalsOf(pw.cmd) :
                \E j \in 1..Len(trace) :
                   trace[j].ev = "ok" /\ trace[j].signal = SignalsOf(pw.cmd)[k]
          /\ trace[Len(trace)].ev = "ok"
          /\ IsLastSignal(trace[Len(trace)].signal)

C11_Witness ==
    /\ pw.cmd = "chongqi" /\ pw.pc = "done" /\ pw.reply.kind = "sent"
    /\ \E j \in 1..Len(trace) : trace[j].ev = "fail" /\ trace[j].signal = "restart"
    /\ \E j \in 1..Len(trace) : trace[j].ev = "fail" /\ trace[j].signal = "kill"

InitConfig ==
    /\ servers \in ServerConfigs
    /\ cacheTime = 30
    /\ enableQuery = TRUE
    /\ apiProvider = "mcstatus"

\* apply: an empty cache, no command running, the sweep timer just created.
InitStatus ==
    /\ now = 0
    /\ cache = [k \in Keys |-> NoEntry]
    /\ req = [r \in Slots |-> ReqIdle]
    /\ lastSweep = 0

InitPower ==
    /\ pw = PwIdle
    /\ trace = <<>>
    /\ firstFailure = [reply |-> NoReply, signal |-> ""]
    /\ motd = <<>>
    /\ out = NotStripped

PowerInit ==
    /\ InitConfig
    /\ apiKey \in {"", "key"}
    /\ apiUrl \in {"", "https://minekuai.com/api/client"}
    /\ InitStatus
    /\ InitPower

PowerNext ==
    \/ \E cmd \in {"kaifu", "chongqi"}, id \in CommandIds : StartCommand(cmd, id)
    \/ PostSucceeds
    \/ \E error \in HttpErrors : PostFails(error)
    \/ BackoffElapsed
    \/ PauseElapsed

SpecPower == PowerInit /\ [][PowerNext]_vars

\* The values of cacheTime (seconds) the plugin is configured with.
CacheTimes == {0, 30, 60}

\* The registry of the specifications that follow one server.
OneServer == << Server(1, "Hypixel", "mc.hypixel.net", "inst1") >>

\* The registries of the all-servers report: the default servers in both
\* orders, no server, and three servers listed out of id order.
AllConfigs ==
    ServerConfigs \cup
    { << >>,
      << Server(3, "Creative", "play.example.com", ""),
         Server(1, "Hypixel", "mc.hypixel.net", "inst1"),
         Server(2, "Demo", "demo.mcstatus.io", "") >> }

Outcomes == {"online", "offline", "fail"}

\* The same, and an answer that names no status.
AllOutcomes == Outcomes \cup {"unknown"}

\* Spec: one server, commands issued one after the other, while time passes
\* and the sweep runs.
Init ==
    /\ servers = OneServer
    /\ cacheTime \in CacheTimes
    /\ enableQuery = TRUE
    /\ apiProvider \in Providers
    /\ apiKey = ""
    /\ apiUrl = "https://minekuai.com/api/client"
    /\ InitStatus
    /\ InitPower

Next ==
    \/ \E server \in {"", "Hypixel"}, list \in BOOLEAN, force \in BOOLEAN,
          api \in {"", "mcstatus", "Lazy", "other"} :
          McStatus(1, server, list, Absent, force, api)
    \/ \E switch \in {"", "mcstatus", "Lazy", "other"} : McStatusApi(1, switch, FALSE)
    \/ \E i \in DOMAIN req[1].calls, outcome \in Outcomes : HttpReturns(1, i, outcome)
    \/ Tick
    \/ Sweep

Spec == Init /\ [][Next]_vars

\* SpecAll: the all-servers report in slot 1, while slot 2 lists the servers.
AllInit ==
    /\ servers \in AllConfigs
    /\ cacheTime \in {0, 30}
    /\ enableQuery = TRUE
    /\ apiProvider \in Providers
    /\ apiKey = ""
    /\ apiUrl = "https://minekuai.com/api/client"
    /\ InitStatus
    /\ InitPower

AllNext ==
    \/ \E force \in BOOLEAN : McStatus(1, "", FALSE, Absent, force, "")
    \/ McStatus(2, "", TRUE, Absent, FALSE, "")
    \/ \E i \in DOMAIN req[1].calls, outcome \in AllOutcomes : HttpReturns(1, i, outcome)

SpecAll == AllInit /\ [][AllNext]_vars

\* SpecConc: two commands in flight together on one server, with the
\* provider switched by -a and -s and the test of mcstatus.api.
ConcInit ==
    /\ servers = OneServer
    /\ cacheTime = 30
    /\ enableQuery = TRUE
    /\ apiProvider \in Providers
    /\ apiKey = ""
    /\ apiUrl = "https://minekuai.com/api/client"
    /\ InitStatus
    /\ InitPower

ConcNext ==
    \/ \E r \in Slots, api \in {"", "mcstatus", "Lazy"} :
          McStatus(r, "Hypixel", FALSE, Absent, FALSE, api)
    \/ \E r \in Slots, switch \in {"", "mcstatus", "lazy"} : McStatusApi(r, switch, FALSE)
    \/ McStatusApi(1, "", TRUE)
    \/ \E r \in Slots : \E i \in DOMAIN req[r].calls, outcome \in {"online", "fail"} :
          HttpReturns(r, i, outcome)

SpecConc == ConcInit /\ [][ConcNext]_vars

\* SpecResolve: mcstatus [server] with the tokens a caller may give, on a
\* registry where a server is named like the id of another.
ResolveConfigs ==
    { << Server(1, "Hypixel", "mc.hypixel.net", "inst1"),
         Server(2, "Demo", "demo.mcstatus.io", "") >>,
      << Server(1, "2", "demo.mcstatus.io", ""),
         Server(2, "Hypixel", "mc.hypixel.net", "inst1") >> }

ResolveTokens == {"2", "7", "Hypixel", "hypixel", "play.example.com"}

ResolveInit ==
    /\ servers \in ResolveConfigs
    /\ cacheTime = 30
    /\ enableQuery = TRUE
    /\ apiProvider = "mcstatus"
    /\ apiKey = ""
    /\ apiUrl = "https://minekuai.com/api/client"
    /\ InitStatus
    /\ InitPower

ResolveNext ==
    \/ \E server \in ResolveTokens : McStatus(1, server, FALSE, Absent, FALSE, "")
    \/ \E i \in DOMAIN req[1].calls, outcome \in Outcomes : HttpReturns(1, i, outcome)

SpecResolve == ResolveInit /\ [][ResolveNext]_vars

\* SpecText: the formatting strippers on every MOTD of up to MaxLen characters.
TextInit ==
    /\ InitConfig
    /\ apiKey = ""
    /\ apiUrl = "https://minekuai.com/api/client"
    /\ InitStatus
    /\ InitPower

TextNext ==
    \/ \E char \in Chars : Receive(char)
    \/ PrintMotd
    \/ CleanMotd

SpecText == TextInit /\ [][TextNext]_vars

\* SpecSweep: one server queried while time passes, with the clock and the
\* timer of the sweep running on: setInterval fires whatever else happens.
SweepInit ==
    /\ servers = OneServer
    /\ cacheTime \in CacheTimes
    /\ enableQuery = TRUE
    /\ apiProvider \in Providers
    /\ apiKey = ""
    /\ apiUrl = "https://minekuai.com/api/client"
    /\ InitStatus
    /\ InitPower

SweepNext ==
    \/ \E force \in BOOLEAN, api \in {"", "lazy"} :
          McStatus(1, "Hypixel", FALSE, Absent, force, api)
    \/ \E i \in DOMAIN req[1].calls, outcome \in Outcomes : HttpReturns(1, i, outcome)
    \/ Tick
    \/ Sweep

SpecSweep == SweepInit /\ [][SweepNext]_vars /\ WF_vars(Tick) /\ WF_vars(Sweep)

\* SpecTemp: mcstatus with and without -a in two commands that may run
\* together; the provider is never switched with mcstatus.api -s.
TempInit ==
    /\ servers = OneServer
    /\ cacheTime = 30
    /\ enableQuery = TRUE
    /\ apiProvider = DefaultProvider
    /\ apiKey = ""
    /\ apiUrl = "https://minekuai.com/api/client"
    /\ InitStatus
    /\ InitPower

TempNext ==
    \/ \E r \in Slots, force \in BOOLEAN, api \in {"", "mcstatus", "Lazy"} :
          McStatus(r, "Hypixel", FALSE, Absent, force, api)
    \/ \E r \in Slots : \E i \in DOMAIN req[r].calls, outcome \in {"online", "fail"} :
          HttpReturns(r, i, outcome)

SpecTemp == TempInit /\ [][TempNext]_vars

\* SpecInvalid: slot 1 gives mcstatus -a and mcstatus.api -s names that are
\* no provider, while slot 2 queries and switches with the names that are.
InvalidNames == {"other", "Hypixel"}

InvalidInit ==
    /\ servers = OneServer
    /\ cacheTime = 30
    /\ enableQuery = TRUE
    /\ apiProvider \in Providers
    /\ apiKey = ""
    /\ apiUrl = "https://minekuai.com/api/client"
    /\ InitStatus
    /\ InitPower

InvalidNext ==
    \/ \E server \in {"", "Hypixel"}, list \in BOOLEAN, force \in BOOLEAN,
          api \in InvalidNames :
          McStatus(1, server, list, Absent, force, api)
    \/ \E switch \in InvalidNames, test \in BOOLEAN : McStatusApi(1, switch, test)
    \/ \E force \in BOOLEAN, api \in {"", "mcstatus", "Lazy"} :
          McStatus(2, "Hypixel", FALSE, Absent, force, api)
    \/ \E switch \in {"mcstatus", "Lazy"} : McStatusApi(2, switch, FALSE)
    \/ \E i \in DOMAIN req[2].calls, outcome \in {"online", "fail"} :
          HttpReturns(2, i, outcome)

SpecInvalid == InvalidInit /\ [][InvalidNext]_vars

\* SpecZero: a registry with a server of id 0, which the schema admits
\* (id: Schema.number().required()), and the commands that take an id.
ZeroServers ==
    << Server(0, "Lobby", "play.example.com", "inst0"),
       Server(1, "Hypixel", "mc.hypixel.net", "inst1") >>

ZeroInit ==
    /\ servers = ZeroServers
    /\ cacheTime = 30
    /\ enableQuery = TRUE
    /\ apiProvider = DefaultProvider
    /\ apiKey = "key"
    /\ apiUrl = "https://minekuai.com/api/client"
    /\ InitStatus
    /\ InitPower

ZeroNext ==
    \/ \E cmd \in {"kaifu", "chongqi"}, id \in {0, 1} : StartCommand(cmd, id)
    \/ PostSucceeds
    \/ \E error \in HttpErrors : PostFails(error)
    \/ BackoffElapsed
    \/ PauseElapsed
    \/ \E info \in {0, 1} : McStatus(1, "", FALSE, info, FALSE, "")
    \/ \E i \in DOMAIN req[1].calls : HttpReturns(1, i, "online")

SpecZero == ZeroInit /\ [][ZeroNext]_vars

\* SpecSwitch: mcstatus -a in slot 1 while slot 2 switches the provider
\* with mcstatus.api -s.
SwitchInit ==
    /\ servers = OneServer
    /\ cacheTime = 30
    /\ enableQuery = TRUE
    /\ apiProvider \in Providers
    /\ apiKey = ""
    /\ apiUrl = "https://minekuai.com/api/client"
    /\ InitStatus
    /\ InitPower

SwitchNext ==
    \/ \E server \in {"", "Hypixel"}, force \in BOOLEAN, api \in {"", "mcstatus", "Lazy"} :
          McStatus(1, server, FALSE, Absent, force, api)
    \/ \E switch \in {"mcstatus", "Lazy", "LAZY"} : McStatusApi(2, switch, FALSE)
    \/ \E i \in DOMAIN req[1].calls, outcome \in Outcomes : HttpReturns(1, i, outcome)

SpecSwitch == SwitchInit /\ [][SwitchNext]_vars

====
